---------------------------- MODULE Spec2Model ----------------------------
(***************************************************************************)
(* Retrieval core of the voice agent: KnowledgeBase (chunk, embed, store,  *)
(* search) of src/voice_agent/rag.py, and the older setup_rag helper of    *)
(* the top-level rag.py.                                                   *)
(*                                                                         *)
(* Text is a sequence of one-character strings.  The calls the code makes  *)
(* into its libraries (RecursiveCharacterTextSplitter, the Chroma vector   *)
(* store, the embedding provider) are modelled at their call sites by what *)
(* the called routine does.                                                *)
(***************************************************************************)
EXTENDS Integers, Sequences, FiniteSets, TLC

(***************************************************************************)
(* Text helpers                                                            *)
(***************************************************************************)
NL == "\n"
SP == " "

Whitespace == {SP, NL}

\* The separators handed to the splitter: "\n\n", "\n", " ", "".
Separators == << <<NL, NL>>, <<NL>>, <<SP>>, <<>> >>

RECURSIVE Flatten(_)
Flatten(ss) == IF ss = <<>> THEN <<>> ELSE Head(ss) \o Flatten(Tail(ss))

\* str.strip(): leading and trailing whitespace removed.
RECURSIVE LStrip(_)
LStrip(s) == IF s # <<>> /\ Head(s) \in Whitespace THEN LStrip(Tail(s)) ELSE s

RECURSIVE RStrip(_)
RStrip(s) ==
    IF s # <<>> /\ s[Len(s)] \in Whitespace
    THEN RStrip(SubSeq(s, 1, Len(s) - 1)) ELSE s

Strip(s) == RStrip(LStrip(s))

IsSepAt(text, i, sep) ==
    /\ sep # <<>>
    /\ i + Len(sep) - 1 <= Len(text)
    /\ SubSeq(text, i, i + Len(sep) - 1) = sep

\* re.search(separator, text)
Contains(text, sep) == \E i \in 1..Len(text) : IsSepAt(text, i, sep)

SelectNonEmpty(ss) == SelectSeq(ss, LAMBDA s : s # <<>>)

(***************************************************************************)
(* RecursiveCharacterTextSplitter, keep_separator = True, strip_whitespace *)
(* = True, length_function = len (the defaults the call leaves in place).  *)
(***************************************************************************)

\* _split_text_with_regex with the separator kept at the start of the piece
\* that follows it: [t0, sep+t1, sep+t2, ...]; list(text) for the empty
\* separator.
RECURSIVE Pieces(_, _, _, _, _)
Pieces(text, sep, i, cur, acc) ==
    IF i > Len(text) THEN Append(acc, cur)
    ELSE IF IsSepAt(text, i, sep)
         THEN Pieces(text, sep, i + Len(sep), sep, Append(acc, cur))
         ELSE Pieces(text, sep, i + 1, Append(cur, text[i]), acc)

SplitWithRegex(text, sep) ==
    IF sep = <<>>
    THEN [i \in 1..Len(text) |-> <<text[i]>>]
    ELSE SelectNonEmpty(Pieces(text, sep, 1, <<>>, <<>>))

\* _join_docs: "".join(docs).strip(); None (here <<>>) when nothing is left.
JoinDocs(docs) == Strip(Flatten(docs))

AppendDoc(docs, cur) ==
    IF JoinDocs(cur) = <<>> THEN docs ELSE Append(docs, JoinDocs(cur))

SumLen(ss) == Len(Flatten(ss))

\* The inner while loop of _merge_splits: pop from the front of current_doc
\* while it is longer than the overlap, or while the next piece would not
\* fit and something is left.
RECURSIVE PopFront(_, _, _, _)
PopFront(cur, len, chunk_size, chunk_overlap) ==
    IF \/ SumLen(cur) > chunk_overlap
       \/ (SumLen(cur) + len > chunk_size /\ SumLen(cur) > 0)
    THEN PopFront(Tail(cur), len, chunk_size, chunk_overlap)
    ELSE cur

\* _merge_splits with the empty join separator (keep_separator = True).
RECURSIVE MergeLoop(_, _, _, _, _, _)
MergeLoop(splits, i, cur, docs, chunk_size, chunk_overlap) ==
    IF i > Len(splits) THEN AppendDoc(docs, cur)
    ELSE LET d == splits[i]
             over == SumLen(cur) + Len(d) > chunk_size
             flush == over /\ cur # <<>>
             docs2 == IF flush THEN AppendDoc(docs, cur) ELSE docs
             cur2 == IF flush
                     THEN PopFront(cur, Len(d), chunk_size, chunk_overlap)
                     ELSE cur
         IN  MergeLoop(splits, i + 1, Append(cur2, d), docs2,
                       chunk_size, chunk_overlap)

MergeSplits(splits, chunk_size, chunk_overlap) ==
    MergeLoop(splits, 1, <<>>, <<>>, chunk_size, chunk_overlap)

\* The first separator of the list that is "" or occurs in the text; the
\* last one when none does.
RECURSIVE PickSeparator(_, _, _)
PickSeparator(text, seps, i) ==
    IF i >= Len(seps) THEN Len(seps)
    ELSE IF seps[i] = <<>> \/ Contains(text, seps[i]) THEN i
    ELSE PickSeparator(text, seps, i + 1)

RECURSIVE SplitTextRec(_, _, _, _)
RECURSIVE SplitLoop(_, _, _, _, _, _, _)

\* The loop of _split_text over the pieces: short pieces are collected and
\* merged, a piece of chunk_size or more is split again with the remaining
\* separators, or kept whole when none remain.
SplitLoop(splits, i, good, final, new_seps, chunk_size, chunk_overlap) ==
    IF i > Len(splits)
    THEN IF good # <<>>
         THEN final \o MergeSplits(good, chunk_size, chunk_overlap)
         ELSE final
    ELSE LET s == splits[i]
         IN  IF Len(s) < chunk_size
             THEN SplitLoop(splits, i + 1, Append(good, s), final, new_seps,
                            chunk_size, chunk_overlap)
             ELSE LET flushed ==
                          IF good # <<>>
                          THEN final \o MergeSplits(good, chunk_size, chunk_overlap)
                          ELSE final
                      deeper ==
                          IF new_seps = <<>> THEN <<s>>
                          ELSE SplitTextRec(s, new_seps, chunk_size, chunk_overlap)
                  IN  SplitLoop(splits, i + 1, <<>>, flushed \o deeper, new_seps,
                                chunk_size, chunk_overlap)

SplitTextRec(text, seps, chunk_size, chunk_overlap) ==
    LET idx == PickSeparator(text, seps, 1)
        separator == seps[idx]
        new_seps == IF separator = <<>> \/ ~Contains(text, separator)
                    THEN <<>> ELSE SubSeq(seps, idx + 1, Len(seps))
    IN  SplitLoop(SplitWithRegex(text, separator), 1, <<>>, <<>>, new_seps,
                  chunk_size, chunk_overlap)

\* text_splitter.split_text(content)
SplitText(text, chunk_size, chunk_overlap) ==
    SplitTextRec(text, Separators, chunk_size, chunk_overlap)

\* The splitter's constructor rejects chunk_overlap > chunk_size (only).
SplitterAccepts(chunk_size, chunk_overlap) == chunk_overlap <= chunk_size


(***************************************************************************)
(* The world the code runs in: text files, persistence directories holding *)
(* named collections of entries, and the embedding provider.               *)
(***************************************************************************)

\* Bounds of the model.
MaxChunkSize == 2
MaxK == 2

\* Defaults of ingest_document and search, and the fixed values of setup_rag.
DefaultChunkSize == 1000
DefaultChunkOverlap == 200
DefaultK == 5

Paths == {"docs/kb.txt", "notes/kb.md", "docs/faq.txt"}

\* Path(file_path).stem
Stem(path) ==
    CASE path = "docs/kb.txt" -> "kb"
      [] path = "notes/kb.md" -> "kb"
      [] path = "docs/faq.txt" -> "faq"

LongDoc == <<"a", SP, "b">>
ShortDoc == <<"b">>
EmptyDoc == <<>>

NoFile == [exists |-> FALSE, content |-> <<>>]
FileOf(text) == [exists |-> TRUE, content |-> text]

\* What a path may hold when a call reads it: the file system belongs to
\* the environment, which may rewrite or remove a file between two calls.
FileStates(path) ==
    CASE path = "docs/kb.txt" -> {FileOf(LongDoc), FileOf(ShortDoc), FileOf(EmptyDoc)}
      [] path = "notes/kb.md" -> {FileOf(ShortDoc)}
      [] path = "docs/faq.txt" -> {NoFile, FileOf(ShortDoc)}

Queries == { <<"a">>, <<"b">> }

\* The smallest and the largest chunk size, and overlaps below, at and
\* above each of them.
ChunkSizes == {1, MaxChunkSize}
ChunkOverlaps == {0, 1, MaxChunkSize, MaxChunkSize + 1}
Ks == (0 - 1)..MaxK

\* settings.chroma_persist_directory, and the directory tools.py passes to
\* setup_rag.
KbDir == "./data/chroma_db"
LegacyDir == "./chroma_db"
Dirs == {KbDir, LegacyDir}

\* self.collection_name, and the vector store wrapper's default name.
KbCollection == "voice_agent_kb"
DefaultCollection == "langchain"
CollectionNames == {KbCollection, DefaultCollection}

\* The file setup_rag and query_information read.
RagFile == "docs/kb.txt"

EmptyMap == [x \in {} |-> x]

NoCollection == [exists |-> FALSE, entries |-> EmptyMap]
EmptyCollection == [exists |-> TRUE, entries |-> EmptyMap]
NoDir == [exists |-> FALSE, colls |-> [c \in CollectionNames |-> NoCollection]]
EmptyDir == [exists |-> TRUE, colls |-> [c \in CollectionNames |-> NoCollection]]
\* The embedding provider: a deterministic map from text to a vector (here
\* one coordinate), the same for chunks and queries.
CharCode(c) ==
    CASE c = "a" -> 1 [] c = "b" -> 2 [] c = "c" -> 3 [] c = "d" -> 4
      [] OTHER -> 0

RECURSIVE Embed(_)
Embed(text) == IF text = <<>> THEN 0 ELSE CharCode(Head(text)) + Embed(Tail(text))

\* Squared L2 distance, the index's default.
Distance(u, v) == (u - v) * (u - v)

\* Function override: g where defined, f elsewhere.
Merge(f, g) ==
    [x \in (DOMAIN f) \cup (DOMAIN g) |-> IF x \in DOMAIN g THEN g[x] ELSE f[x]]

VARIABLES
    store,        \* directory -> [exists, colls: name -> [exists, entries]]
    constructed,  \* the global knowledge_base instance exists
    op,           \* the last call and its arguments
    outcome,      \* "ok" or the kind of error the call raised
    ret,          \* what the call returned
    batch,        \* what the call handed to the index, in order
    embedCalls,   \* calls the last call made to the embedding provider
    storeCalls,   \* calls the last call made to the index
    repeat        \* the last call repeats the successful ingest before it

vars == <<store, constructed, op, outcome, ret, batch,
          embedCalls, storeCalls, repeat>>

(***************************************************************************)
(* The persistent index as the code uses it                                *)
(***************************************************************************)

\* Path.mkdir(exist_ok=True) / the client opening its directory.
MkDir(st, dir) == IF st[dir].exists THEN st ELSE [st EXCEPT ![dir] = EmptyDir]

\* get_collection, and create_collection when it raises NotFoundError.
GetOrCreate(st, dir, name) ==
    IF st[dir].colls[name].exists THEN st
    ELSE [st EXCEPT ![dir].colls[name] = EmptyCollection]

\* Mutant: the wrapper built without collection_name falls back to its
\* default collection.
VectorstoreDefaultCollection == DefaultCollection

\* The collection the vector store wrapper of __init__ is bound to.
VectorstoreCollection == KbCollection

Entries(st, dir, name) == st[dir].colls[name].entries

\* f"{file_path.stem}_chunk_{i}"
ChunkId(stem, i) == <<stem, "_chunk_", i>>

\* The id the wrapper generates for a text handed over without one.
FreshId(n) == <<"uuid4", "-", n>>

\* The metadata ingest_document attaches to chunk i of n.
ChunkMetadata(path, i, n) ==
    [source |-> path, chunk_id |-> i, total_chunks |-> n]

\* Mutant: chunk ids counted from 1.
BuildBatchOneBased(path, chunks) ==
    [j \in 1..Len(chunks) |->
        [id |-> <<Stem(path), "_chunk_", j>>,
         text |-> chunks[j],
         metadata |-> [source |-> path, chunk_id |-> j,
                       total_chunks |-> Len(chunks)]]]

\* The three parallel lists built by the loop over enumerate(chunks), as
\* one sequence of items.
BuildBatch(path, chunks) ==
    [j \in 1..Len(chunks) |->
        [id |-> ChunkId(Stem(path), j - 1),
         text |-> chunks[j],
         metadata |-> ChunkMetadata(path, j - 1, Len(chunks))]]

\* Chroma.from_documents on Documents that carry no metadata and no id.
BuildLegacyBatch(chunks) ==
    [j \in 1..Len(chunks) |->
        [id |-> FreshId(j), text |-> chunks[j], metadata |-> EmptyMap]]

\* Mutant: add_texts without ids, so every text gets a fresh id.
AddTextsWithoutIds(entries, items) ==
    Merge(entries,
          [id \in {<<"uuid4", "-", Cardinality(DOMAIN entries) + j>> :
                       j \in 1..Len(items)} |->
              LET j == id[3] - Cardinality(DOMAIN entries)
              IN  [text |-> items[j].text,
                   metadata |-> items[j].metadata,
                   embedding |-> Embed(items[j].text)]])

\* Mutant: the document's earlier entries deleted before the new ones go in.
AddTextsReplacing(entries, items) ==
    LET stems == {items[j].id[1] : j \in 1..Len(items)}
        kept == {id \in DOMAIN entries : id[1] \notin stems}
    IN  Merge([id \in kept |-> entries[id]],
              [id \in {items[j].id : j \in 1..Len(items)} |->
                  LET j == CHOOSE jj \in 1..Len(items) : items[jj].id = id
                  IN  [text |-> items[j].text,
                       metadata |-> items[j].metadata,
                       embedding |-> Embed(items[j].text)]])

\* add_texts with ids: an upsert, id by id; the text is embedded on the way.
AddTexts(entries, items) ==
    Merge(entries,
          [id \in {items[j].id : j \in 1..Len(items)} |->
              LET j == CHOOSE jj \in 1..Len(items) :
                           /\ items[jj].id = id
                           /\ \A m \in jj + 1..Len(items) : items[m].id # id
              IN  [text |-> items[j].text,
                   metadata |-> items[j].metadata,
                   embedding |-> Embed(items[j].text)]])

\* The ids nearest to the query vector among ids.
Closest(entries, ids, qvec) ==
    {i \in ids : \A j \in ids :
        Distance(entries[i].embedding, qvec) <= Distance(entries[j].embedding, qvec)}

\* The index's k-nearest-neighbour lookup: every sequence of min(k, size)
\* distinct ids in ascending distance; equal distances come in any order.
RECURSIVE NearestFrom(_, _, _, _)
NearestFrom(entries, ids, qvec, k) ==
    IF k <= 0 \/ ids = {} THEN { <<>> }
    ELSE UNION { { <<i>> \o rest :
                     rest \in NearestFrom(entries, ids \ {i}, qvec, k - 1) } :
                 i \in Closest(entries, ids, qvec) }

Nearest(entries, qvec, k) == NearestFrom(entries, DOMAIN entries, qvec, k)

\* Mutant: the results collected in reverse.
SearchResultsReversed(entries, ids) ==
    [j \in 1..Len(ids) |->
        [content |-> entries[ids[Len(ids) + 1 - j]].text,
         metadata |-> entries[ids[Len(ids) + 1 - j]].metadata,
         score |-> "None"]]

\* Mutant: a placeholder result when nothing was found.
SearchResultsPlaceholder(entries, ids) ==
    IF ids = <<>>
    THEN << [content |-> <<>>, metadata |-> EmptyMap, score |-> "None"] >>
    ELSE [j \in 1..Len(ids) |->
             [content |-> entries[ids[j]].text,
              metadata |-> entries[ids[j]].metadata,
              score |-> "None"]]

\* The loop of search over the documents found: one result per document,
\* in order; a Document has no score attribute, so score is None.
SearchResults(entries, ids) ==
    [j \in 1..Len(ids) |->
        [content |-> entries[ids[j]].text,
         metadata |-> entries[ids[j]].metadata,
         score |-> "None"]]

(***************************************************************************)
(* The tool's text.  Fixed phrases of the code are one token each; the     *)
(* content of a result stays a sequence of characters.                     *)
(***************************************************************************)

\* search(query, k=3) of knowledge_base_search.
ToolK == 3

\* str(i) of a result number.
Str(i) == <<"0", "1", "2", "3", "4", "5", "6", "7", "8", "9">>[i + 1]

\* str(e): what the exception of a failed call says about it.
Message(kind) == <<"message of ", kind>>

NoInfoText == <<"No relevant information found in the knowledge base.">>

\* Mutant: the error text without the error's message.
ToolErrorTextGeneric(kind) == <<"Error searching knowledge base.">>

\* f"Error searching knowledge base: {str(e)}"
ToolErrorText(kind) == <<"Error searching knowledge base: ">> \o Message(kind)

\* f"Result {i}:\n{result['content']}" for i = 1, 2, ...
FormatResult(i, result) == <<"Result ", Str(i), ":", NL>> \o result.content

\* "\n\n".join(formatted_results)
RECURSIVE JoinResults(_, _)
JoinResults(results, i) ==
    IF i > Len(results) THEN <<>>
    ELSE IF i = Len(results) THEN FormatResult(i, results[i])
    ELSE FormatResult(i, results[i]) \o <<NL, NL>> \o JoinResults(results, i + 1)

FormatResults(results) == JoinResults(results, 1)

(***************************************************************************)
(* Calls                                                                   *)
(***************************************************************************)

\* What the embedding provider or the index does to a call: nothing, or
\* the provider raises, or the index raises.
Faults == {"none", "embed", "store"}

\* A call as the caller made it and as its surroundings met it.
Call(name, path, file, size, overlap, query, k, dir, fault) ==
    [name |-> name, path |-> path, file |-> file, chunk_size |-> size,
     chunk_overlap |-> overlap, query |-> query, k |-> k, dir |-> dir,
     fault |-> fault]

NoCall == Call("none", "", NoFile, 0, 0, <<>>, 0, "", "none")

\* The directory setup_rag leaves behind when it fills a missing one.
LegacyFill(st, dir, text) ==
    [GetOrCreate(MkDir(st, dir), dir, DefaultCollection) EXCEPT
        ![dir].colls[DefaultCollection].entries =
            AddTexts(@, BuildLegacyBatch(
                SplitText(text, DefaultChunkSize, DefaultChunkOverlap)))]

BlankStore == [d \in Dirs |-> NoDir]

\* Before the first process starts, the knowledge base directory is missing,
\* or holds the default collection an earlier setup_rag run put there.
Init ==
    /\ store \in {BlankStore, LegacyFill(BlankStore, KbDir, <<"a", "b">>)}
    /\ constructed = FALSE
    /\ op = NoCall
    /\ outcome = "ok"
    /\ ret = 0
    /\ batch = <<>>
    /\ embedCalls = 0
    /\ storeCalls = 0
    /\ repeat = FALSE

\* KnowledgeBase.__init__: a process imports the module and builds the
\* global instance.
Construct ==
    /\ store' = GetOrCreate(GetOrCreate(MkDir(store, KbDir), KbDir, KbCollection),
                            KbDir, VectorstoreCollection)
    /\ constructed' = TRUE
    /\ op' = Call("construct", "", NoFile, 0, 0, <<>>, 0, KbDir, "none")
    /\ outcome' = "ok"
    /\ ret' = 0
    /\ batch' = <<>>
    /\ embedCalls' = 0
    /\ storeCalls' = 0
    /\ repeat' = FALSE

\* Mutant: the existence check left out.
FileExistsUnchecked(file) == TRUE

\* file_path.exists()
FileExists(file) == file.exists

\* KnowledgeBase.ingest_document(file_path, chunk_size, chunk_overlap),
\* file being what the path holds when the call looks at it.  add_texts
\* embeds all texts, then upserts them in one request; an index that turns
\* down an empty request is the fault "store" on a document of no chunks.
IngestDocument(path, file, size, overlap, fault) ==
    /\ constructed
    /\ LET call == Call("ingest", path, file, size, overlap, <<>>, 0, KbDir, fault)
           chunks == SplitText(file.content, size, overlap)
           items == BuildBatch(path, chunks)
       IN  /\ op' = call
           /\ repeat' = (op = call /\ outcome = "ok")
           /\ IF ~FileExists(file)
              THEN /\ outcome' = "FileNotFoundError"
                   /\ ret' = 0 /\ batch' = <<>>
                   /\ embedCalls' = 0 /\ storeCalls' = 0
                   /\ store' = store
              ELSE IF ~SplitterAccepts(size, overlap)
              THEN /\ outcome' = "ValueError"
                   /\ ret' = 0 /\ batch' = <<>>
                   /\ embedCalls' = 0 /\ storeCalls' = 0
                   /\ store' = store
              ELSE IF fault = "embed"
              THEN /\ outcome' = "EmbeddingError"
                   /\ ret' = 0 /\ batch' = <<>>
                   /\ embedCalls' = 1 /\ storeCalls' = 0
                   /\ store' = store
              ELSE IF fault = "store"
              THEN /\ outcome' = "StoreError"
                   /\ ret' = 0 /\ batch' = <<>>
                   /\ embedCalls' = 1 /\ storeCalls' = 1
                   /\ store' = store
              ELSE /\ outcome' = "ok"
                   /\ ret' = Len(chunks)
                   /\ batch' = items
                   /\ embedCalls' = 1 /\ storeCalls' = 1
                   /\ store' = [store EXCEPT
                         ![KbDir].colls[VectorstoreCollection].entries =
                             AddTexts(@, items)]
    /\ UNCHANGED constructed

\* Mutant: a failed request answered with an empty list.
SearchCallSwallowing(entries, query, k, fault) ==
    IF fault # "none" \/ k <= 0
    THEN { [outcome |-> "ok", ret |-> <<>>,
            embedCalls |-> 1, storeCalls |-> 0] }
    ELSE { [outcome |-> "ok", ret |-> SearchResults(entries, ids),
            embedCalls |-> 1, storeCalls |-> 1] :
              ids \in Nearest(entries, Embed(query), k) }

\* The body of KnowledgeBase.search(query, k) on the entries of the
\* collection: the query is embedded, then the index is asked for k
\* neighbours; it rejects k <= 0.  Every way the call can end, with the
\* number of requests made to the provider and to the index.
SearchCall(entries, query, k, fault) ==
    IF fault = "embed"
    THEN { [outcome |-> "EmbeddingError", ret |-> 0,
            embedCalls |-> 1, storeCalls |-> 0] }
    ELSE IF k <= 0
    THEN { [outcome |-> "ValueError", ret |-> 0,
            embedCalls |-> 1, storeCalls |-> 1] }
    ELSE IF fault = "store"
    THEN { [outcome |-> "StoreError", ret |-> 0,
            embedCalls |-> 1, storeCalls |-> 1] }
    ELSE { [outcome |-> "ok", ret |-> SearchResults(entries, ids),
            embedCalls |-> 1, storeCalls |-> 1] :
              ids \in Nearest(entries, Embed(query), k) }

\* KnowledgeBase.search(query, k) as a caller sees it.
Search(query, k, fault) ==
    /\ constructed
    /\ op' = Call("search", "", NoFile, 0, 0, query, k, KbDir, fault)
    /\ repeat' = FALSE
    /\ batch' = <<>>
    /\ \E r \in SearchCall(Entries(store, KbDir, VectorstoreCollection),
                           query, k, fault) :
           /\ outcome' = r.outcome
           /\ ret' = r.ret
           /\ embedCalls' = r.embedCalls
           /\ storeCalls' = r.storeCalls
    /\ UNCHANGED <<store, constructed>>

\* The function create_rag_tool wraps as the agent's tool: search with
\* k = 3 inside try/except; it hands back a text whatever happens.
KnowledgeBaseSearch(query, fault) ==
    /\ constructed
    /\ op' = Call("knowledge_base_search", "", NoFile, 0, 0, query, ToolK,
                  KbDir, fault)
    /\ repeat' = FALSE
    /\ batch' = <<>>
    /\ outcome' = "ok"
    /\ \E r \in SearchCall(Entries(store, KbDir, VectorstoreCollection),
                           query, ToolK, fault) :
           /\ ret' = IF r.outcome # "ok" THEN ToolErrorText(r.outcome)
                     ELSE IF r.ret = <<>> THEN NoInfoText
                     ELSE FormatResults(r.ret)
           /\ embedCalls' = r.embedCalls
           /\ storeCalls' = r.storeCalls
    /\ UNCHANGED <<store, constructed>>

\* setup_rag(text_file_path, persist_directry) of the top-level rag.py, as
\* query_information calls it on every query: an existing directory is
\* reused, a missing one is created and filled from the text file.
SetupRag(dir, file, fault) ==
    /\ LET chunks == SplitText(file.content, DefaultChunkSize, DefaultChunkOverlap)
           opened == GetOrCreate(MkDir(store, dir), dir, DefaultCollection)
       IN  /\ op' = Call("setup_rag", RagFile, file, DefaultChunkSize,
                         DefaultChunkOverlap, <<>>, 0, dir, fault)
           /\ repeat' = FALSE
           /\ ret' = 0
           /\ IF store[dir].exists
              THEN /\ outcome' = "ok"
                   /\ batch' = <<>>
                   /\ embedCalls' = 0 /\ storeCalls' = 0
                   /\ store' = opened
              ELSE IF ~FileExists(file)
              THEN /\ outcome' = "FileNotFoundError"
                   /\ batch' = <<>>
                   /\ embedCalls' = 0 /\ storeCalls' = 0
                   /\ store' = store
              ELSE IF chunks = <<>>
              THEN /\ outcome' = "IndexError"
                   /\ batch' = <<>>
                   /\ embedCalls' = 0 /\ storeCalls' = 0
                   /\ store' = store
              ELSE IF fault = "embed"
              THEN /\ outcome' = "EmbeddingError"
                   /\ batch' = <<>>
                   /\ embedCalls' = 1 /\ storeCalls' = 0
                   /\ store' = opened
              ELSE IF fault = "store"
              THEN /\ outcome' = "StoreError"
                   /\ batch' = <<>>
                   /\ embedCalls' = 1 /\ storeCalls' = 1
                   /\ store' = opened
              ELSE /\ outcome' = "ok"
                   /\ batch' = BuildLegacyBatch(chunks)
                   /\ embedCalls' = 1 /\ storeCalls' = 1
                   /\ store' = LegacyFill(store, dir, file.content)
    /\ UNCHANGED constructed

Next ==
    \/ Construct
    \/ \E p \in Paths, cs \in ChunkSizes, co \in ChunkOverlaps, f \in Faults :
           \E file \in FileStates(p) : IngestDocument(p, file, cs, co, f)
    \/ \E q \in Queries, k \in Ks, f \in Faults : Search(q, k, f)
    \/ \E q \in Queries, f \in Faults : KnowledgeBaseSearch(q, f)

Spec == Init /\ [][Next]_vars

\* The store's bootstrap paths alone: both ways the repository opens a
\* persistence directory.
BootNext ==
    \/ Construct
    \/ \E d \in Dirs, f \in Faults :
           \E file \in FileStates(RagFile) \cup {NoFile} : SetupRag(d, file, f)
    \/ \E q \in Queries, k \in Ks, f \in Faults : Search(q, k, f)

BootSpec == Init /\ [][BootNext]_vars

(***************************************************************************)
(* The splitter on its own: split_text applied to one document.            *)
(***************************************************************************)

MaxDocLen == 4
MaxSplitSize == 3

Alphabet == {"a", "b", SP, NL}

SplitDocs == UNION { [1..n -> Alphabet] : n \in 0..MaxDocLen }

SplitInit ==
    /\ store = BlankStore
    /\ constructed = FALSE
    /\ \E text \in SplitDocs, cs \in 1..MaxSplitSize, co \in 0..MaxSplitSize :
           op = Call("split_text", "", FileOf(text), cs, co, <<>>, 0, "", "none")
    /\ outcome = "pending"
    /\ ret = <<>>
    /\ batch = <<>>
    /\ embedCalls = 0
    /\ storeCalls = 0
    /\ repeat = FALSE

\* RecursiveCharacterTextSplitter(chunk_size, chunk_overlap, separators)
\* followed by split_text(content).
SplitDocument ==
    /\ op.name = "split_text"
    /\ outcome = "pending"
    /\ IF SplitterAccepts(op.chunk_size, op.chunk_overlap)
       THEN /\ outcome' = "ok"
            /\ ret' = SplitText(op.file.content, op.chunk_size, op.chunk_overlap)
       ELSE /\ outcome' = "ValueError"
            /\ ret' = <<>>
    /\ UNCHANGED <<store, constructed, op, batch, embedCalls, storeCalls, repeat>>

SplitSpec == SplitInit /\ [][SplitDocument]_vars

(***************************************************************************)
(* Properties                                                              *)
(***************************************************************************)

KbEntries == Entries(store, KbDir, KbCollection)

IngestOk == op.name = "ingest" /\ outcome = "ok"
SearchOk == op.name = "search" /\ outcome = "ok"

\* C1: an ingest_document call that repeats the successful call right
\* before it (same path, same file content, same chunk_size and
\* chunk_overlap) leaves every directory and collection exactly as the
\* first call left it: the same ids, and the same text and metadata per id.
C1_IdempotentReingest == [][repeat' => store' = store]_vars

C1_Witness ==
    /\ repeat
    /\ outcome = "ok"
    /\ Len(batch) >= 2
    /\ \A j \in 1..Len(batch) : batch[j].id \in DOMAIN KbEntries

\* C2: after a successful ingest_document call on a document of n chunks
\* the call has returned n, the items it wrote are the n chunks in order,
\* item i (from 0) has chunk_id i, total_chunks n and the id
\* <stem>_chunk_<i>, and the collection holds each of them under that id.
C2_ChunkNumbering ==
    IngestOk =>
        LET chunks == SplitText(op.file.content, op.chunk_size, op.chunk_overlap)
            n == Len(chunks)
        IN  /\ ret = n
            /\ Len(batch) = n
            /\ \A j \in 1..n :
                   /\ batch[j].text = chunks[j]
                   /\ batch[j].metadata.chunk_id = j - 1
                   /\ batch[j].metadata.total_chunks = n
                   /\ batch[j].id = <<Stem(op.path), "_chunk_", j - 1>>
                   /\ batch[j].id \in DOMAIN KbEntries
                   /\ KbEntries[batch[j].id].text = chunks[j]
                   /\ KbEntries[batch[j].id].metadata = batch[j].metadata

C2_Witness == IngestOk /\ ret = 3 /\ Len(batch) = 3

StoredIn(r, entries) ==
    \E id \in DOMAIN entries :
        entries[id].text = r.content /\ entries[id].metadata = r.metadata

\* C3: a search(query, k) with k >= 1 that returns, returns at most k
\* results, each of them an entry of the collection voice_agent_kb and none
\* of them an entry of the other collection of the directory.
C3_SearchWithinCollection ==
    (SearchOk /\ op.k >= 1) =>
        /\ Len(ret) <= op.k
        /\ \A j \in 1..Len(ret) :
               /\ StoredIn(ret[j], KbEntries)
               /\ ~StoredIn(ret[j], Entries(store, KbDir, DefaultCollection))

C3_Witness ==
    /\ SearchOk
    /\ Len(ret) = op.k
    /\ Cardinality(DOMAIN KbEntries) > op.k
    /\ DOMAIN Entries(store, KbDir, DefaultCollection) # {}

\* C4: on a collection that holds nothing, a search(query, k) with k >= 1
\* that the embedding provider and the index serve ends without an error
\* and returns the empty sequence.
C4_EmptyIndexSearch ==
    (op.name = "search" /\ op.k >= 1 /\ op.fault = "none" /\ KbEntries = EmptyMap)
        => (outcome = "ok" /\ ret = <<>>)

C4_Witness ==
    /\ op.name = "search" /\ op.k >= 1 /\ op.fault = "none"
    /\ store[KbDir].colls[KbCollection].exists
    /\ KbEntries = EmptyMap
    /\ outcome = "ok" /\ ret = <<>>

\* Distance of a result to the query of the last call.
ResultDistance(r) == Distance(Embed(r.content), Embed(op.query))

Min(a, b) == IF a <= b THEN a ELSE b

\* C5: the results of a search(query, k) that returns are min(k, size of
\* the index) stored entries in ascending distance to the query, and the
\* result at position j has fewer than j stored entries strictly nearer
\* than itself: they are the nearest entries, in the order of the lookup.
C5_AscendingDistance ==
    (SearchOk /\ op.k >= 1) =>
        /\ Len(ret) = Min(op.k, Cardinality(DOMAIN KbEntries))
        /\ \A i, j \in 1..Len(ret) :
               i < j => ResultDistance(ret[i]) <= ResultDistance(ret[j])
        /\ \A j \in 1..Len(ret) :
               /\ StoredIn(ret[j], KbEntries)
               /\ Cardinality({id \in DOMAIN KbEntries :
                      Distance(KbEntries[id].embedding, Embed(op.query))
                          < ResultDistance(ret[j])}) < j

C5_Witness ==
    /\ SearchOk
    /\ Len(ret) >= 2
    /\ Cardinality(DOMAIN KbEntries) > Len(ret)
    /\ ResultDistance(ret[1]) < ResultDistance(ret[2])

\* C6: an ingest_document call on a path that holds no file ends with
\* FileNotFoundError, has called neither the embedding provider nor the
\* index, has written nothing, and leaves every collection as it was.
C6_MissingFile ==
    [][(op'.name = "ingest" /\ ~op'.file.exists) =>
          /\ outcome' = "FileNotFoundError"
          /\ embedCalls' = 0
          /\ storeCalls' = 0
          /\ batch' = <<>>
          /\ store' = store]_vars

C6_Witness ==
    /\ op.name = "ingest" /\ ~op.file.exists
    /\ outcome = "FileNotFoundError"
    /\ DOMAIN KbEntries # {}

\* C7: an ingest_document call with chunk_overlap >= chunk_size ends in an
\* error and has called neither the embedding provider nor the index, so
\* nothing is written.  (The splitter rejects only chunk_overlap >
\* chunk_size: with the two equal the document is split and stored.)
C7_OverlapNotBelowSizeFails ==
    (op.name = "ingest" /\ op.chunk_overlap >= op.chunk_size) =>
        /\ outcome # "ok"
        /\ embedCalls = 0
        /\ storeCalls = 0
        /\ batch = <<>>

\* What does hold: a larger overlap is rejected before any embedding.
C7_LargerOverlapFails ==
    (op.name = "ingest" /\ op.chunk_overlap > op.chunk_size) =>
        /\ outcome \in {"ValueError", "FileNotFoundError"}
        /\ embedCalls = 0
        /\ storeCalls = 0
        /\ batch = <<>>

\* C8: a search call with k <= 0 ends in an error and has called neither
\* the embedding provider nor the index.  (search checks nothing itself:
\* the query is embedded first and the index then rejects k.)
C8_NonPositiveKFailsFast ==
    (op.name = "search" /\ op.k <= 0) =>
        /\ outcome # "ok"
        /\ embedCalls = 0
        /\ storeCalls = 0

\* What does hold: a search with k <= 0 never returns results.
C8_NonPositiveKNeverReturns ==
    (op.name = "search" /\ op.k <= 0) => outcome # "ok"

AllEntries(st) == [d \in Dirs |-> [c \in CollectionNames |-> st[d].colls[c].entries]]

\* C9: opening the store, by KnowledgeBase.__init__ or by setup_rag, adds
\* no entry: every collection holds after it what it held before (nothing
\* when it is new).  (setup_rag fills a missing directory from the text
\* file.)
C9_ConstructionNeverIngests ==
    [][(op'.name \in {"construct", "setup_rag"}) =>
          AllEntries(store') = AllEntries(store)]_vars

\* What does hold: KnowledgeBase.__init__ creates the collection when it is
\* missing and changes no entry.
C9_KnowledgeBaseBootstrap ==
    [][(op'.name = "construct") =>
          /\ AllEntries(store') = AllEntries(store)
          /\ store'[KbDir].colls[KbCollection].exists]_vars

\* d can be put together from the chunks from position j on: each chunk
\* gives up a prefix of at most chunk_overlap characters that repeats the
\* end of the chunk before it, and what remains of the chunks, in order,
\* is rest.
RECURSIVE CanRebuild(_, _, _, _)
CanRebuild(chunks, j, rest, chunk_overlap) ==
    IF j > Len(chunks) THEN rest = <<>>
    ELSE LET c == chunks[j]
             most == IF j = 1 THEN 0 ELSE Min(chunk_overlap, Len(c))
         IN  \E k \in 0..most :
                 /\ k > 0 =>
                        /\ k <= Len(chunks[j - 1])
                        /\ SubSeq(c, 1, k) =
                               SubSeq(chunks[j - 1], Len(chunks[j - 1]) - k + 1,
                                      Len(chunks[j - 1]))
                 /\ LET part == SubSeq(c, k + 1, Len(c))
                    IN  /\ Len(part) <= Len(rest)
                        /\ SubSeq(rest, 1, Len(part)) = part
                        /\ CanRebuild(chunks, j + 1,
                                      SubSeq(rest, Len(part) + 1, Len(rest)),
                                      chunk_overlap)

\* C10: for chunk_overlap < chunk_size the chunks of a document, each
\* without the part it shares with the chunk before it, concatenate to the
\* document, character for character.  (The splitter strips the whitespace
\* at the ends of every merged chunk.)
C10_ChunksReconstructDocument ==
    (op.name = "split_text" /\ outcome = "ok"
        /\ op.chunk_overlap < op.chunk_size) =>
        CanRebuild(ret, 1, op.file.content, op.chunk_overlap)

\* The last n characters of a chunk (all of it when it is shorter).
LastChars(chunk, n) ==
    SubSeq(chunk, Len(chunk) - Min(n, Len(chunk)) + 1, Len(chunk))

\* Chunk j repeats, as its first characters, the final chunk_overlap
\* characters of the chunk before it.
StartsWithOverlap(chunks, j, chunk_overlap) ==
    LET tail == LastChars(chunks[j - 1], chunk_overlap)
    IN  /\ Len(tail) <= Len(chunks[j])
        /\ SubSeq(chunks[j], 1, Len(tail)) = tail

\* C11: for chunk_overlap < chunk_size no chunk is longer than chunk_size
\* and every chunk after the first starts with the final chunk_overlap
\* characters of its predecessor.  (The splitter carries over whole pieces
\* between separators, at most chunk_overlap characters of them, and
\* strips the chunk afterwards.)
C11_ChunkWindows ==
    (op.name = "split_text" /\ outcome = "ok"
        /\ op.chunk_overlap < op.chunk_size) =>
        \A j \in 1..Len(ret) :
            /\ Len(ret[j]) <= op.chunk_size
            /\ j > 1 => StartsWithOverlap(ret, j, op.chunk_overlap)

\* What does hold: no chunk is longer than chunk_size, and a chunk shares
\* with its predecessor at most chunk_overlap characters.
C11_NoChunkExceedsSize ==
    (op.name = "split_text" /\ outcome = "ok"
        /\ op.chunk_overlap < op.chunk_size) =>
        \A j \in 1..Len(ret) : Len(ret[j]) <= op.chunk_size

ToolCall == op.name = "knowledge_base_search"

\* The entries of ids, numbered from 1 in that order, each as "Result i:",
\* a newline and the entry's text, with an empty line between two entries.
Numbered(entries, ids) ==
    Flatten([j \in 1..Len(ids) |->
                (IF j = 1 THEN <<>> ELSE <<NL, NL>>)
                    \o <<"Result ", Str(j), ":", NL>> \o entries[ids[j]].text])

\* C12: the tool function never raises.  When its search fails the text it
\* returns contains the error's message; when the search finds nothing it
\* returns the fixed no-information text; otherwise it returns the entries
\* found, numbered from 1 in the order the search gave them.
C12_ToolNeverRaises ==
    ToolCall =>
        /\ outcome = "ok"
        /\ op.fault = "embed" => Contains(ret, Message("EmbeddingError"))
        /\ op.fault = "store" => Contains(ret, Message("StoreError"))
        /\ (op.fault = "none" /\ DOMAIN KbEntries = {}) => ret = NoInfoText
        /\ (op.fault = "none" /\ DOMAIN KbEntries # {}) =>
               \E ids \in Nearest(KbEntries, Embed(op.query), ToolK) :
                   ret = Numbered(KbEntries, ids)

\* The index fails under the tool's search and the tool answers with text.
C12_Witness ==
    /\ ToolCall /\ op.fault = "store" /\ outcome = "ok"
    /\ storeCalls = 1
    /\ Contains(ret, Message("StoreError"))

\* The tool answers with two or more numbered entries.
C12_ResultsWitness ==
    /\ ToolCall /\ op.fault = "none"
    /\ Contains(ret, <<NL, NL, "Result ", "2", ":", NL>>)

\* The tool answers that it found nothing.
C12_NoResultsWitness ==
    /\ ToolCall /\ op.fault = "none" /\ ret = NoInfoText

\* The call got as far as its first request to the embedding provider.
ReachedProvider ==
    \/ op.name = "search"
    \/ /\ op.name = "ingest"
       /\ op.file.exists
       /\ op.chunk_overlap <= op.chunk_size

C13_IngestWitness ==
    /\ op.name = "ingest" /\ op.fault = "store"
    /\ op.file.content = LongDoc
    /\ outcome = "StoreError"

\* C14: no call removes an entry, and a successful ingest that yields n
\* chunks overwrites by position: the entries numbered below n under the
\* file's stem take the new chunks' text, and every other entry, those
\* numbered n and above under the same stem among them, keeps its text
\* and its metadata.
C14_ReingestOverwritesByPosition ==
    [][/\ DOMAIN KbEntries \subseteq DOMAIN KbEntries'
       /\ (op'.name = "ingest" /\ outcome' = "ok") =>
              LET chunks == SplitText(op'.file.content, op'.chunk_size,
                                      op'.chunk_overlap)
              IN  /\ ret' = Len(chunks)
                  /\ \A id \in DOMAIN KbEntries :
                         IF id[1] = Stem(op'.path) /\ id[3] < Len(chunks)
                         THEN KbEntries'[id].text = chunks[id[3] + 1]
                         ELSE KbEntries'[id] = KbEntries[id]]_vars

\* After a re-ingest that gave fewer chunks, an entry of the same file is
\* left over from the longer version: numbered past the new chunk count and
\* carrying the old total.
C14_Witness ==
    /\ IngestOk /\ ret >= 1
    /\ \E id \in DOMAIN KbEntries :
           /\ id[1] = Stem(op.path)
           /\ KbEntries[id].metadata.source = op.path
           /\ id[3] >= ret
           /\ KbEntries[id].metadata.total_chunks > ret
           /\ KbEntries[id].metadata.total_chunks = id[3] + 1

\* The stored entries whose metadata names path as their source.
EntriesOf(entries, path) ==
    [id \in {i \in DOMAIN entries : entries[i].metadata.source = path} |->
        entries[id]]

\* C15: an ingest of the document at path A leaves the entries of every
\* other source path B as they were: none added, none overwritten, none
\* altered.  (Ids are built from the file's stem, so two paths with one
\* stem write to the same ids.)
C15_OtherDocumentsUnchanged ==
    [][(op'.name = "ingest") =>
          \A B \in Paths \ {op'.path} :
              EntriesOf(KbEntries', B) = EntriesOf(KbEntries, B)]_vars

\* What does hold: an ingest leaves every entry stored under another stem
\* as it was.
C15_OtherStemsUnchanged ==
    [][(op'.name = "ingest") =>
          \A id \in DOMAIN KbEntries :
              id[1] # Stem(op'.path) =>
                  /\ id \in DOMAIN KbEntries'
                  /\ KbEntries'[id] = KbEntries[id]]_vars

=============================================================================
